---- MODULE Spec2Model ----
(***************************************************************************)
(* A model of analyze.py: the forward-fill sampler sample() and the batch  *)
(* analysis analyze() that calls it once per trade date.                   *)
(*                                                                         *)
(* Times are whole ticks of one minute.  Prices are fixed-point numbers,   *)
(* a price p standing for p / PriceScale currency units, so that the       *)
(* truncation int(x) and the scaling by 10000 are exact integer            *)
(* computations.  A DataFrame is a sequence of rows in index order; irow   *)
(* is zero-based as in pandas.                                             *)
(***************************************************************************)
EXTENDS Integers, Sequences, FiniteSets, TLC

\* ---------------------------------------------------------------- bounds
MaxRows == 3
MaxTime == 3
MaxDelta == 4
MaxPrice == 2

\* ------------------------------------------------------------- constants
\* minutes in a day: strptime('%m/%d/%Y %H:%M:%S.%f') maps a later date to a
\* later instant, a whole day apart
DayTicks == 1440
\* datetime.timedelta(minutes=3)
SampleInterval == 3
\* a price is a multiple of 1 / PriceScale
PriceScale == 2
\* timedelta.total_seconds() of one tick
SecondsPerTick == 60

VARIABLES table, pc, df, delta, t_max, t, i, last_dict, temp_dict, out,
          stats, pending, df_trade_price_res, ret

vars == <<table, pc, df, delta, t_max, t, i, last_dict, temp_dict, out,
          stats, pending, df_trade_price_res, ret>>

sampleVars == <<df, delta, t_max, t, i, last_dict, temp_dict, out>>
analyzeVars == <<table, stats, pending, df_trade_price_res, ret>>

\* ------------------------------------------------------------ data model
TradeDates == {1, 2}
TradeTimes == 0..MaxTime
\* the times of day of a file's trades: spans below, at and above the interval
TradeTimesOfDay == {0, 1, 4}
Prices == 1..MaxPrice

\* the derived column trade_date_time: the instant of a date and a time of day
ParseDateTime(d, tm) == d * DayTicks + tm

Row(d, tm, p, q) ==
    [trade_date |-> d, trade_time |-> tm, trade_price |-> p,
     trade_quantity |-> q, trade_date_time |-> ParseDateTime(d, tm)]

\* one day's n records, in file order (not necessarily sorted by time)
DayGroups(n) == [1..n -> {Row(1, tm, p, 1) : tm \in TradeTimes, p \in Prices}]

irow(frame, k) == frame[k + 1]

Column(frame, col) == [k \in 1..Len(frame) |-> frame[k][col]]

SeqMin(s) == CHOOSE x \in {s[k] : k \in 1..Len(s)} : \A k \in 1..Len(s) : x <= s[k]
SeqMax(s) == CHOOSE x \in {s[k] : k \in 1..Len(s)} : \A k \in 1..Len(s) : x >= s[k]

IsSorted(frame) ==
    \A k \in 1..(Len(frame) - 1) :
        frame[k].trade_date_time <= frame[k + 1].trade_date_time

\* ---------------------------------------------------------------- sample
T_min(frame) == SeqMin(Column(frame, "trade_date_time"))

\* the variant of lines 56-57: the last time rounded up to a whole unit (of 3 ticks)
T_maxRounded(frame) ==
    LET m == SeqMax(Column(frame, "trade_date_time")) IN m + ((3 - (m % 3)) % 3)
T_max(frame) == SeqMax(Column(frame, "trade_date_time"))

DataOf(row) == [trade_price |-> row.trade_price, trade_date |-> row.trade_date]

EmptyFrame == [trade_date_time |-> <<>>, trade_price |-> <<>>, trade_date |-> <<>>]

LoopCondInclusive(clock, stop) == clock <= stop
LoopCond(clock, stop) == clock < stop

PassedOrAt(clock, stamp) == clock >= stamp
Passed(clock, stamp) == clock > stamp

CursorStuck(k) == k
NextCursor(k) == k + 1

NextClock(clock, d) == clock + d

\* lines 58-69
SampleEnter ==
    /\ pc = "sample"
    /\ t_max' = T_max(df)
    /\ t' = T_min(df)
    /\ temp_dict' = EmptyFrame
    /\ last_dict' = DataOf(irow(df, 0))
    /\ i' = 1
    /\ pc' = "while"
    /\ UNCHANGED <<df, delta, out>>
    /\ UNCHANGED analyzeVars

\* line 73 true, line 74
OuterEnter ==
    /\ pc = "while"
    /\ LoopCond(t, t_max)
    /\ temp_dict' = [temp_dict EXCEPT !.trade_date_time = Append(@, t)]
    /\ pc' = "inner"
    /\ UNCHANGED <<df, delta, t_max, t, i, last_dict, out>>
    /\ UNCHANGED analyzeVars

\* line 73 false, line 82
OuterExit ==
    /\ pc = "while"
    /\ ~LoopCond(t, t_max)
    /\ out' = temp_dict
    /\ pc' = "returned"
    /\ UNCHANGED <<df, delta, t_max, t, i, last_dict, temp_dict>>
    /\ UNCHANGED analyzeVars

\* line 75: df.irow(i) with i past the last row raises IndexError
InnerIndexError ==
    /\ pc = "inner"
    /\ i >= Len(df)
    /\ pc' = "error"
    /\ UNCHANGED sampleVars
    /\ UNCHANGED analyzeVars

\* line 75 true, lines 76-78
InnerAdvance ==
    /\ pc = "inner"
    /\ i < Len(df)
    /\ Passed(t, irow(df, i).trade_date_time)
    /\ last_dict' = DataOf(irow(df, i))
    /\ i' = NextCursor(i)
    /\ UNCHANGED <<pc, df, delta, t_max, t, temp_dict, out>>
    /\ UNCHANGED analyzeVars

\* line 75 false
InnerStop ==
    /\ pc = "inner"
    /\ i < Len(df)
    /\ ~Passed(t, irow(df, i).trade_date_time)
    /\ pc' = "emit"
    /\ UNCHANGED sampleVars
    /\ UNCHANGED analyzeVars

\* lines 79-81
Emit ==
    /\ pc = "emit"
    /\ temp_dict' = [temp_dict EXCEPT
                       !.trade_price = Append(@, last_dict.trade_price),
                       !.trade_date = Append(@, last_dict.trade_date)]
    /\ t' = NextClock(t, delta)
    /\ pc' = "while"
    /\ UNCHANGED <<df, delta, t_max, i, last_dict, out>>
    /\ UNCHANGED analyzeVars

SampleStep ==
    \/ SampleEnter
    \/ OuterEnter
    \/ OuterExit
    \/ InnerIndexError
    \/ InnerAdvance
    \/ InnerStop
    \/ Emit

\* a call sample(df, delta, 'trade_date_time', 'trade_price', 'trade_date')
InitSample ==
    /\ pc = "sample"
    /\ \E n \in 1..MaxRows : df \in DayGroups(n)
    /\ delta \in 1..MaxDelta
    /\ t_max = 0 /\ t = 0 /\ i = 0
    /\ last_dict = <<>>
    /\ temp_dict = EmptyFrame
    /\ out = EmptyFrame
    /\ table = <<>>
    /\ stats = <<>>
    /\ pending = <<>>
    /\ df_trade_price_res = <<>>
    /\ ret = <<>>

NextSample == SampleStep

SpecSample == InitSample /\ [][NextSample]_vars

FairSpecSample == SpecSample /\ WF_vars(NextSample)

\* --------------------------------------------------------------- analyze
\* the parsed file: rows in file order, the k-th trade of quantity k
Fields(n) == [1..n -> [d : TradeDates, tm : TradeTimesOfDay, p : Prices]]

ReadCsv(f) == [k \in 1..Len(f) |-> Row(f[k].d, f[k].tm, f[k].p, k)]

Indices(tbl) == 1..Len(tbl)

\* the m-th smallest (m = 1 is the minimum) of a non-empty sequence of numbers
OrderStat(vals, m) ==
    CHOOSE x \in {vals[k] : k \in 1..Len(vals)} :
        /\ Cardinality({k \in 1..Len(vals) : vals[k] < x}) < m
        /\ Cardinality({k \in 1..Len(vals) : vals[k] <= x}) >= m

RECURSIVE SeqSum(_)
SeqSum(vals) == IF vals = <<>> THEN 0 ELSE Head(vals) + SeqSum(Tail(vals))

\* Series.quantile(fourths / 4), times 4: linear interpolation between the
\* order statistics around position (n - 1) * q; NaN (here "nan") when empty
Quantile4(vals, fourths) ==
    LET n == Len(vals)
        h == (n - 1) * fourths
        lo == OrderStat(vals, (h \div 4) + 1)
        hi == OrderStat(vals, (h \div 4) + 2)
    IN  IF h % 4 = 0 THEN 4 * lo ELSE 4 * lo + (h % 4) * (hi - lo)

CountAbove(vals, fourths) ==
    IF vals = <<>> THEN 0
    ELSE Cardinality({k \in 1..Len(vals) : 4 * vals[k] > Quantile4(vals, fourths)})
\* len(df[col < col.quantile(q)]) and sum(s < s.quantile(q)): a comparison with
\* the NaN quantile of an empty series is false for every value
CountBelow(vals, fourths) ==
    IF vals = <<>> THEN 0
    ELSE Cardinality({k \in 1..Len(vals) : 4 * vals[k] < Quantile4(vals, fourths)})

\* groupby('trade_date'): the keys in ascending order
RECURSIVE SortedSeq(_)
SortedSeq(S) ==
    IF S = {} THEN <<>>
    ELSE LET m == CHOOSE x \in S : \A y \in S : x <= y
         IN  <<m>> \o SortedSeq(S \ {m})

GroupKeys(tbl) == SortedSeq({tbl[k].trade_date : k \in Indices(tbl)})

\* the index labels of one group, in file order
GroupIndex(tbl, d) == SortedSeq({k \in Indices(tbl) : tbl[k].trade_date = d})

Group(tbl, d) == [k \in 1..Len(GroupIndex(tbl, d)) |-> tbl[GroupIndex(tbl, d)[k]]]

RECURSIVE Concat(_)
Concat(seqs) == IF seqs = <<>> THEN <<>> ELSE Head(seqs) \o Concat(Tail(seqs))

\* Series.diff() of one group: the first element is null, every other one is
\* the difference from the element before it in the group; each keeps its
\* index label
DiffOf(tbl, idx, col) ==
    [k \in 1..Len(idx) |->
        IF k = 1 THEN [index |-> idx[k], null |-> TRUE, value |-> 0]
        ELSE [index |-> idx[k], null |-> FALSE,
              value |-> tbl[idx[k]][col] - tbl[idx[k - 1]][col]]]

\* line 171 (commented out in the source): the differences of the whole column
PlainDiff(tbl, col) ==
    DiffOf(tbl, [k \in 1..Len(tbl) |-> k], col)
\* line 160: groupby('trade_date')[col].apply(lambda x: x.diff())
GroupedDiff(tbl, col) ==
    Concat([g \in 1..Len(GroupKeys(tbl)) |->
              DiffOf(tbl, GroupIndex(tbl, GroupKeys(tbl)[g]), col)])

NotNull(series) == SelectSeq(series, LAMBDA e : ~e.null)

\* lines 165-166: the non-null interarrival times, in seconds
InterTimes(tbl) ==
    LET kept == NotNull(GroupedDiff(tbl, "trade_date_time"))
    IN  [k \in 1..Len(kept) |->
            [index |-> kept[k].index, value |-> kept[k].value * SecondsPerTick]]

Values(series) == [k \in 1..Len(series) |-> series[k].value]

\* line 179: the traded volume of each day, in key order
DailyVol(tbl) ==
    [g \in 1..Len(GroupKeys(tbl)) |->
        SeqSum(Column(Group(tbl, GroupKeys(tbl)[g]), "trade_quantity"))]

\* a mean as the fraction <<sum, count>>
Mean(vals) == <<SeqSum(vals), Len(vals)>>

\* twice the median
Median2(vals) ==
    LET n == Len(vals)
    IN  IF n % 2 = 1 THEN 2 * OrderStat(vals, (n + 1) \div 2)
        ELSE OrderStat(vals, n \div 2) + OrderStat(vals, (n \div 2) + 1)

\* int(x) of x = a / PriceScale: truncation towards zero
IntOf(a) == IF a >= 0 THEN a \div PriceScale ELSE -((-a) \div PriceScale)

\* lines 208 and 210: lambda x: 10000*int(x)
Bps(a) == 10000 * IntOf(a)

\* lines 209 and 211: the extreme price of each day less df.ix[0]['trade_price']
DailyPriceMax(tbl) ==
    [g \in 1..Len(GroupKeys(tbl)) |->
        Bps(SeqMax(Column(Group(tbl, GroupKeys(tbl)[g]), "trade_price"))
            - tbl[1].trade_price)]

DailyPriceMin(tbl) ==
    [g \in 1..Len(GroupKeys(tbl)) |->
        Bps(SeqMin(Column(Group(tbl, GroupKeys(tbl)[g]), "trade_price"))
            - tbl[1].trade_price)]

\* lines 197-199: x['trade_price'].diff() / x['trade_price'] of one day's
\* samples, each return the fraction <<numerator, denominator>>
ReturnsOf(frame) ==
    [k \in 1..Len(frame.trade_price) |->
        IF k = 1 THEN [null |-> TRUE, value |-> <<0, 1>>]
        ELSE [null |-> FALSE,
              value |-> <<frame.trade_price[k] - frame.trade_price[k - 1],
                          frame.trade_price[k]>>]]

\* lines 138-184
AnalyzeStats ==
    /\ pc = "analyze"
    /\ stats' =
         LET price == Column(table, "trade_price")
             inter == InterTimes(table)
             vol == DailyVol(table)
         IN  [N_trade_price_q1 |-> CountBelow(price, 1),
              N_trade_price_q2 |-> CountBelow(price, 2),
              N_trade_price_q3 |-> CountBelow(price, 3),
              max_trade_price |-> SeqMax(price),
              min_trade_price |-> SeqMin(price),
              mean_trade_price |-> Mean(price),
              s_inter_time |-> inter,
              N_inter_time_q1 |-> CountBelow(Values(inter), 1),
              N_inter_time_q2 |-> CountBelow(Values(inter), 2),
              N_inter_time_q3 |-> CountBelow(Values(inter), 3),
              mean_daily_vol |-> Mean(vol),
              max_daily_vol |-> SeqMax(vol),
              min_daily_vol |-> SeqMin(vol),
              median_daily_vol |-> Median2(vol),
              s_returns |-> <<>>,
              daily_price_max_list |-> <<>>,
              daily_price_min_list |-> <<>>]
    /\ pending' = GroupKeys(table)
    /\ df_trade_price_res' = <<>>
    /\ pc' = "resample"
    /\ UNCHANGED <<table, ret>>
    /\ UNCHANGED sampleVars

\* lines 188-191: the call of sample() on the next day's group
ResampleCall ==
    /\ pc = "resample"
    /\ pending # <<>>
    /\ df' = Group(table, Head(pending))
    /\ delta' = SampleInterval
    /\ pc' = "sample"
    /\ UNCHANGED <<t_max, t, i, last_dict, temp_dict, out>>
    /\ UNCHANGED analyzeVars

\* lines 188-191: the day's samples join the combined table
ResampleCollect ==
    /\ pc = "returned"
    /\ pending # <<>>
    /\ df_trade_price_res' = Append(df_trade_price_res, out)
    /\ pending' = Tail(pending)
    /\ pc' = "resample"
    /\ UNCHANGED <<table, stats, ret>>
    /\ UNCHANGED sampleVars

\* what analyze() hands back at line 212
Returned(tbl, st) == tbl

\* lines 193-212 (the reductions std() and mean() of lines 194, 200, 201 and
\* 204 are floating-point values of locals that are never read again)
AnalyzeFinish ==
    /\ pc = "resample"
    /\ pending = <<>>
    /\ stats' = [stats EXCEPT
                   !.s_returns =
                       Concat([g \in 1..Len(df_trade_price_res) |->
                                 ReturnsOf(df_trade_price_res[g])]),
                   !.daily_price_max_list = DailyPriceMax(table),
                   !.daily_price_min_list = DailyPriceMin(table)]
    /\ ret' = Returned(table, stats')
    /\ pc' = "done"
    /\ UNCHANGED <<table, pending, df_trade_price_res>>
    /\ UNCHANGED sampleVars

\* the script run on one file
InitAnalyze ==
    /\ pc = "analyze"
    /\ \E n \in 1..MaxRows : \E f \in Fields(n) : table = ReadCsv(f)
    /\ df = <<>>
    /\ delta = 0
    /\ t_max = 0 /\ t = 0 /\ i = 0
    /\ last_dict = <<>>
    /\ temp_dict = EmptyFrame
    /\ out = EmptyFrame
    /\ stats = <<>>
    /\ pending = <<>>
    /\ df_trade_price_res = <<>>
    /\ ret = <<>>

NextAnalyze ==
    \/ AnalyzeStats
    \/ ResampleCall
    \/ SampleStep
    \/ ResampleCollect
    \/ AnalyzeFinish

SpecAnalyze == InitAnalyze /\ [][NextAnalyze]_vars

\* ------------------------------------------------- properties of sample()
Span(frame) == T_max(frame) - T_min(frame)

CeilDiv(a, b) == (a + b - 1) \div b

\* the rows emitted so far: a sample time together with its data columns
Emitted == 1..Len(temp_dict.trade_price)

\* the (one-based) position of the last record stamped at or before instant s
LatestAtOrBefore(frame, s) ==
    CHOOSE k \in 1..Len(frame) :
        /\ frame[k].trade_date_time <= s
        /\ \A j \in (k + 1)..Len(frame) : frame[j].trade_date_time > s

\* the position of the last record stamped strictly before s; the first record
\* when there is none
LatestBefore(frame, s) ==
    IF \E k \in 1..Len(frame) : frame[k].trade_date_time < s
    THEN CHOOSE k \in 1..Len(frame) :
            /\ frame[k].trade_date_time < s
            /\ \A j \in (k + 1)..Len(frame) : frame[j].trade_date_time >= s
    ELSE 1

RowCarries(k, row) ==
    /\ temp_dict.trade_price[k] = row.trade_price
    /\ temp_dict.trade_date[k] = row.trade_date

\* C1 as stated: on a sorted input every emitted row carries the value of the
\* latest record stamped at or before the sample time.
C1_AtOrBefore ==
    IsSorted(df) =>
        \A k \in Emitted :
            RowCarries(k, df[LatestAtOrBefore(df, temp_dict.trade_date_time[k])])

\* C1 amended: on a sorted input every emitted row carries the value of the
\* latest record stamped strictly before the sample time, and the first
\* record's value when no record is earlier (the first sample).
C1_StrictlyBefore ==
    IsSorted(df) =>
        \A k \in Emitted :
            RowCarries(k, df[LatestBefore(df, temp_dict.trade_date_time[k])])

\* a finished run on a sorted input where a later record lies exactly on a
\* sample time and differs in price from the record before it
C1_Witness ==
    /\ pc = "returned"
    /\ IsSorted(df)
    /\ Len(out.trade_price) >= 2
    /\ \E k \in 2..Len(out.trade_price) : \E j \in 2..Len(df) :
          /\ df[j].trade_date_time = out.trade_date_time[k]
          /\ df[j].trade_price # df[j - 1].trade_price
          /\ out.trade_price[k] = df[j - 1].trade_price

\* C2 as stated: the number of rows returned for a sorted input is
\* floor((t_max - t_min) / delta).
C2_FloorCount ==
    (pc = "returned" /\ IsSorted(df)) =>
        Len(out.trade_date_time) = Span(df) \div delta

\* C2 amended: the number of rows returned for a sorted input is
\* ceil((t_max - t_min) / delta), in every column.
C2_CeilCount ==
    (pc = "returned" /\ IsSorted(df)) =>
        /\ Len(out.trade_date_time) = CeilDiv(Span(df), delta)
        /\ Len(out.trade_price) = CeilDiv(Span(df), delta)
        /\ Len(out.trade_date) = CeilDiv(Span(df), delta)

\* a finished run whose span is not a whole number of intervals
C2_Witness ==
    /\ pc = "returned"
    /\ IsSorted(df)
    /\ Span(df) % delta # 0
    /\ Len(out.trade_date_time) = (Span(df) \div delta) + 1
    /\ Len(out.trade_date_time) >= 2

\* C5: given a single record, sample() never enters the loop body, reads no
\* record but the first, raises no error and returns an empty table.
C5_SingleRecordEmpty ==
    Len(df) = 1 =>
        /\ pc \notin {"inner", "emit", "error"}
        /\ temp_dict = EmptyFrame
        /\ pc = "returned" => out = EmptyFrame

C5_Witness == Len(df) = 1 /\ pc = "returned" /\ out = EmptyFrame

OneSampleOfFirst ==
    /\ out.trade_date_time = <<df[1].trade_date_time>>
    /\ out.trade_price = <<df[1].trade_price>>
    /\ out.trade_date = <<df[1].trade_date>>

\* C6 as stated: an interval larger than the span of a sorted input yields
\* exactly one sample, at the first record's time with the first record's value.
C6_OneSample ==
    (pc = "returned" /\ IsSorted(df) /\ delta > Span(df)) => OneSampleOfFirst

\* C6 amended: an interval larger than the span of a sorted input whose first
\* and last timestamps differ yields exactly one sample, at the first record's
\* time with the first record's value.
C6_OneSamplePositiveSpan ==
    (pc = "returned" /\ IsSorted(df) /\ delta > Span(df) /\ Span(df) > 0)
        => OneSampleOfFirst

\* a finished run with an oversized interval over records that start with two
\* equal timestamps of different price
C6_Witness ==
    /\ pc = "returned"
    /\ IsSorted(df)
    /\ delta > Span(df)
    /\ Span(df) > 0
    /\ Len(df) >= 3
    /\ df[2].trade_date_time = df[1].trade_date_time
    /\ df[2].trade_price # df[1].trade_price
    /\ OneSampleOfFirst

\* C9: on a sorted input the cursor stays within the records whenever the
\* loop reads record i (1 <= i <= n - 1), the clock being below the last
\* timestamp, so the read never fails.
C9_CursorInRange ==
    IsSorted(df) =>
        /\ pc = "inner" => (1 <= i /\ i <= Len(df) - 1 /\ t < irow(df, Len(df) - 1).trade_date_time)
        /\ pc # "error"

\* the cursor has reached the last record while the loop is reading
C9_Witness == IsSorted(df) /\ pc = "inner" /\ i = Len(df) - 1 /\ i >= 2

ClockCursorStep ==
    /\ i' >= i
    /\ pc = "emit" => t' > t
    /\ pc \in {"while", "inner"} => t' = t

\* C10: on a sorted input with a positive interval sample() terminates: the
\* clock strictly increases on every outer iteration, the cursor never
\* rewinds, and the call returns.
C10_Terminates ==
    /\ [][ClockCursorStep]_vars
    /\ (IsSorted(df) /\ delta > 0) => <>(pc = "returned")

\* a finished run in which the outer loop iterated more than once and the
\* cursor moved
C10_Witness ==
    /\ pc = "returned"
    /\ IsSorted(df)
    /\ Len(out.trade_date_time) >= 2
    /\ i >= 2

\* ------------------------------------------------ properties of analyze()
\* analyze() has ended: it returned, or sample() raised inside it
StatsDone == pc \in {"done", "error"}

SameDayBefore(r) == {q \in 1..(r - 1) : table[q].trade_date = table[r].trade_date}

PrevSameDay(r) == CHOOSE q \in SameDayBefore(r) : \A x \in SameDayBefore(r) : x <= q

RecordsOn(d) == {r \in Indices(table) : table[r].trade_date = d}

DatesOf(tbl) == {tbl[r].trade_date : r \in Indices(tbl)}

\* C3: the interarrival series holds exactly the differences between
\* consecutive records of the same trade date, none across two dates: N - D
\* values for N records on D dates, a day of k records contributing k - 1.
C3_DayBoundedInterarrival ==
    StatsDone =>
        LET s == stats.s_inter_time IN
        /\ Len(s) = Len(table) - Cardinality(DatesOf(table))
        /\ \A k \in 1..Len(s) :
              /\ SameDayBefore(s[k].index) # {}
              /\ s[k].value =
                    SecondsPerTick * (table[s[k].index].trade_date_time
                                      - table[PrevSameDay(s[k].index)].trade_date_time)
        /\ \A k, j \in 1..Len(s) : s[k].index = s[j].index => k = j
        /\ \A d \in DatesOf(table) :
              Cardinality({k \in 1..Len(s) : table[s[k].index].trade_date = d})
                 = Cardinality(RecordsOn(d)) - 1

\* a finished analysis of three records, the middle one on another date than
\* the two around it
C3_Witness ==
    /\ pc = "done"
    /\ Len(table) = 3
    /\ table[1].trade_date = table[3].trade_date
    /\ table[2].trade_date # table[1].trade_date
    /\ Len(stats.s_inter_time) = 1
    /\ stats.s_inter_time[1].index = 3

\* the report of the docstring (lines 96-114), in its order
Report ==
    <<stats.N_trade_price_q1, stats.N_trade_price_q2, stats.N_trade_price_q3,
      stats.max_trade_price, stats.min_trade_price, stats.mean_trade_price,
      stats.N_inter_time_q1, stats.N_inter_time_q2, stats.N_inter_time_q3,
      stats.mean_daily_vol, stats.max_daily_vol, stats.min_daily_vol,
      stats.median_daily_vol, stats.mean_trade_price,
      stats.daily_price_max_list, stats.daily_price_min_list>>

\* C4: analyze() returns the enumerated report, every statistic it computed
\* in the fixed order.
C4_ReturnsReport == pc = "done" => ret = Report

\* round(10000 * a / PriceScale), halves away from zero
RoundBps(a) ==
    LET n == 10000 * a
    IN  IF n >= 0 THEN (2 * n + PriceScale) \div (2 * PriceScale)
        ELSE -((2 * (-n) + PriceScale) \div (2 * PriceScale))

DayPrices(g) == Column(Group(table, GroupKeys(table)[g]), "trade_price")

\* C7: each day's maximum (minimum) price deviation is the difference between
\* the day's maximum (minimum) price and the table's first price, scaled by
\* 10000 and then rounded to an integer.
C7_ScaledThenRounded ==
    pc = "done" =>
        /\ Len(stats.daily_price_max_list) = Len(GroupKeys(table))
        /\ Len(stats.daily_price_min_list) = Len(GroupKeys(table))
        /\ \A g \in 1..Len(GroupKeys(table)) :
              /\ stats.daily_price_max_list[g]
                    = RoundBps(SeqMax(DayPrices(g)) - table[1].trade_price)
              /\ stats.daily_price_min_list[g]
                    = RoundBps(SeqMin(DayPrices(g)) - table[1].trade_price)

\* C8: the counts below the three quartiles never decrease from one quartile
\* to the next and never exceed the number of values, for the trade prices and
\* for the interarrival times.
C8_QuartileCountsOrdered ==
    StatsDone =>
        /\ 0 <= stats.N_trade_price_q1
        /\ stats.N_trade_price_q1 <= stats.N_trade_price_q2
        /\ stats.N_trade_price_q2 <= stats.N_trade_price_q3
        /\ stats.N_trade_price_q3 <= Len(table)
        /\ 0 <= stats.N_inter_time_q1
        /\ stats.N_inter_time_q1 <= stats.N_inter_time_q2
        /\ stats.N_inter_time_q2 <= stats.N_inter_time_q3
        /\ stats.N_inter_time_q3 <= Len(stats.s_inter_time)

\* statistics of a table whose price counts grow between the quartiles and
\* whose interarrival series has values below its third quartile
C8_Witness ==
    /\ StatsDone
    /\ stats.N_trade_price_q1 < stats.N_trade_price_q3
    /\ stats.N_trade_price_q3 < Len(table)
    /\ Len(stats.s_inter_time) >= 2
    /\ stats.N_inter_time_q3 >= 1

====
